---- MODULE Spec2Model ----
(***************************************************************************)
(* A model of the qstash-rs client: the publish pipeline of                *)
(* src/src/client/publish.rs (destination, header encoding, send, response *)
(* decoding) and the types of src/src/client/request.rs.                   *)
(*                                                                         *)
(* Strings that become header values are sequences of bytes (the numbers   *)
(* 0..255), as HeaderValue::from_str sees them.  Header names are the      *)
(* lower-case names a HeaderMap stores.  An Option<T> is None or Some(x).  *)
(***************************************************************************)
EXTENDS Integers, Sequences, FiniteSets, TLC

\* The fields of the records of the model.  Every record below lists its
\* fields in this order.
RecordFields ==
    [base_url |-> "Client", body |-> "PublishRequest, request, response",
     call |-> "task", callback |-> "PublishOptions",
     cannot_be_a_base |-> "Url",
     content_based_deduplication |-> "PublishOptions",
     cursor |-> "EventRequest, DlqRequest, GetEventsResponse",
     deduplicated |-> "QstashResponse",
     deduplication_id |-> "PublishOptions",
     default_headers |-> "Client", delay |-> "PublishOptions",
     err |-> "Result", error |-> "QstashResponse",
     events |-> "GetEventsResponse", field |-> "field",
     fragment |-> "Url", headers |-> "PublishOptions, request",
     kind |-> "PublishRequestUrl, reply", message_id |-> "QstashResponse, call",
     messages |-> "DlqResponse",
     method |-> "PublishOptions", not_before |-> "PublishOptions",
     ok |-> "Result", op |-> "call", options |-> "call",
     origin |-> "Url", outbound |-> "task", path |-> "Url", pc |-> "task",
     query |-> "Url", reply |-> "task",
     request |-> "call", result |-> "task", retries |-> "PublishOptions",
     some |-> "Option", status |-> "response", t |-> "JSON",
     token |-> "Client::new", ty |-> "field",
     url |-> "PublishRequest, QstashResponse, request", v |-> "Option, JSON",
     verb |-> "request", version |-> "Client", wire |-> "field"]

VARIABLES
    new_in,     \* the arguments Client::new was called with
    new_out,    \* what Client::new returned, NotRun before the call
    tasks,      \* the invocations that run concurrently on the client
    enc_in,     \* the PublishOptions handed to generate_headers
    enc_out,    \* what generate_headers returned, NotRun before the call
    client,     \* the Client: base_url, version and the default headers
    pc,         \* where the current invocation is: idle, awaiting, received, done
    call,       \* the arguments of the current invocation
    outbound,   \* the requests the current invocation handed to the transport
    reply,      \* what the transport answered: a response or a failure
    result      \* what the invocation returned to its caller

encVars == <<enc_in, enc_out>>

pipeVars == <<new_in, new_out, client, pc, call, outbound, reply, result>>

vars ==
    <<new_in, new_out, tasks, enc_in, enc_out, client, pc, call, outbound, reply, result>>

----------------------------------------------------------------------------
(* Option<T> *)

None == [some |-> FALSE]

Some(x) == [some |-> TRUE, v |-> x]

\* Result<T, E>
Ok(x) == [ok |-> TRUE, v |-> x]

Err(e) == [err |-> e, ok |-> FALSE]

\* the value of a result that has not been produced yet
NotRun == Err("NotRun")

----------------------------------------------------------------------------
(* Bounds of the model *)

\* the largest number of names in a caller's pass-through HeaderMap
MaxPassNames == 1

\* the largest number of values a pass-through header holds under one name
MaxHeaderValues == 2

----------------------------------------------------------------------------
(* Byte strings *)

B_POST == <<80, 79, 83, 84>>

B_GET == <<71, 69, 84>>

B_PUT == <<80, 85, 84>>

B_true == <<116, 114, 117, 101>>

B_false == <<102, 97, 108, 115, 101>>

\* "abc"
B_abc == <<97, 98, 99>>

\* "a\nb": a line feed inside, not a valid header value
B_a_LF_b == <<97, 10, 98>>

\* "cb"
B_cb == <<99, 98>>

\* "c\u{7f}": a DEL byte, not a valid header value
B_c_DEL == <<99, 127>>

\* std's Display for u32: the decimal digits, most significant first
RECURSIVE ToDecimal(_)
ToDecimal(n) ==
    IF n < 10 THEN <<48 + n>>
    ELSE ToDecimal(n \div 10) \o <<48 + (n % 10)>>

\* the number a string of decimal digits denotes, -1 when it is not one
RECURSIVE ParseDecimal(_)
ParseDecimal(s) ==
    IF Len(s) = 0 THEN -1
    ELSE LET d == s[Len(s)] - 48
             front == SubSeq(s, 1, Len(s) - 1)
         IN  IF d < 0 \/ d > 9 THEN -1
             ELSE IF Len(front) = 0 THEN d
             ELSE LET p == ParseDecimal(front)
                  IN  IF p < 0 THEN -1 ELSE 10 * p + d

----------------------------------------------------------------------------
(* http::HeaderValue and http::HeaderMap, as generate_headers uses them *)

\* HeaderValue::from_str accepts the visible ASCII bytes and the tab
IsVisibleAscii(b) == (b >= 32 /\ b < 127) \/ b = 9

HeaderValueFromStr(s) ==
    IF \A i \in 1..Len(s) : IsVisibleAscii(s[i])
    THEN Ok(s)
    ELSE Err("InvalidHeaderValue")

\* the names the encoder writes, as spelled in the code
DirectiveSpellings ==
    {"Upstash-Method", "Upstash-Delay", "Upstash-Not-Before",
     "Upstash-Deduplication-Id", "Upstash-Content-Based-Deduplication",
     "Upstash-Retries", "Upstash-Callback"}

\* a HeaderMap stores a name in lower case, whatever case it was given in
HeaderNameOf(spelling) ==
    CASE spelling = "Upstash-Method" -> "upstash-method"
      [] spelling = "Upstash-Delay" -> "upstash-delay"
      [] spelling = "Upstash-Not-Before" -> "upstash-not-before"
      [] spelling = "Upstash-Deduplication-Id" -> "upstash-deduplication-id"
      [] spelling = "Upstash-Content-Based-Deduplication"
            -> "upstash-content-based-deduplication"
      [] spelling = "Upstash-Retries" -> "upstash-retries"
      [] spelling = "Upstash-Callback" -> "upstash-callback"
      [] spelling = "Content-Type" -> "content-type"
      [] spelling = "Authorization" -> "authorization"
      [] OTHER -> spelling

\* HeaderMap::new()
EmptyHeaderMap == [n \in {} |-> <<>>]

\* a variant of HeaderMapInsert that keeps the values already under the
\* name (HeaderMap::append)
HeaderMapAppend(h, spelling, value) ==
    LET name == HeaderNameOf(spelling)
    IN  [n \in DOMAIN h \cup {name} |->
            IF n = name
            THEN (IF n \in DOMAIN h THEN h[n] ELSE <<>>) \o <<value>>
            ELSE h[n]]

\* HeaderMap::insert: the name ends up with this one value, the values it
\* had are dropped
HeaderMapInsert(h, spelling, value) ==
    LET name == HeaderNameOf(spelling)
    IN  [n \in DOMAIN h \cup {name} |->
            IF n = name THEN <<value>> ELSE h[n]]

----------------------------------------------------------------------------
(* reqwest::Method *)

\* Method::as_str
MethodAsStr(m) ==
    CASE m = "GET" -> B_GET
      [] m = "PUT" -> B_PUT
      [] m = "POST" -> B_POST

----------------------------------------------------------------------------
(* Client::generate_headers, src/src/client/publish.rs *)

HeadersOk(h) == [headers |-> h, ok |-> TRUE]

HeadersErr == Err("PublishError")
\* a variant of BaseHeaders that keeps the first value of each name only
BaseHeadersFirstValue(request) ==
    IF request.headers.some
    THEN [n \in DOMAIN request.headers.v |-> <<request.headers.v[n][1]>>]
    ELSE EmptyHeaderMap

\* request.headers.unwrap_or(HeaderMap::new())
BaseHeaders(request) ==
    IF request.headers.some THEN request.headers.v ELSE EmptyHeaderMap

\* a variant of MethodToken without the POST default
MethodTokenAsGiven(request) ==
    IF request.method.some THEN MethodAsStr(request.method.v) ELSE <<>>

\* request.method.unwrap_or(Method::POST).as_str()
MethodToken(request) ==
    MethodAsStr(IF request.method.some THEN request.method.v ELSE "POST")
\* a variant of PutDirective that leaves out a text that is no header value
\* and goes on with the next directive
PutDirectiveSkipInvalid(acc, spelling, text) ==
    IF ~acc.ok THEN acc
    ELSE LET hv == HeaderValueFromStr(text)
         IN  IF hv.ok
             THEN HeadersOk(HeaderMapInsert(acc.headers, spelling, hv.v))
             ELSE acc

\* one directive: from_str on the text, then insert; the first text that is
\* no header value ends the encoding with PublishError
PutDirective(acc, spelling, text) ==
    IF ~acc.ok THEN acc
    ELSE LET hv == HeaderValueFromStr(text)
         IN  IF hv.ok
             THEN HeadersOk(HeaderMapInsert(acc.headers, spelling, hv.v))
             ELSE HeadersErr

\* a variant of FormatDelay without the unit
FormatDelayBare(delay) == ToDecimal(delay)

\* format!("{}s", delay)
FormatDelay(delay) == ToDecimal(delay) \o <<115>>

\* format!("{}", not_before)
FormatNotBefore(not_before) == ToDecimal(not_before)

\* format!("{}", retries)
FormatRetries(retries) == ToDecimal(retries)

\* match content_based_deduplication { true => "true", false => "false" }
FormatBool(b) == IF b THEN B_true ELSE B_false

WithMethod(request) ==
    PutDirective(HeadersOk(BaseHeaders(request)), "Upstash-Method",
                 MethodToken(request))

\* a variant of WithDelay that writes a zero delay when none is asked for
WithDelayOrZero(acc, request) ==
    PutDirective(acc, "Upstash-Delay",
                 FormatDelay(IF request.delay.some THEN request.delay.v ELSE 0))

WithDelay(acc, request) ==
    IF request.delay.some
    THEN PutDirective(acc, "Upstash-Delay", FormatDelay(request.delay.v))
    ELSE acc

WithNotBefore(acc, request) ==
    IF request.not_before.some
    THEN PutDirective(acc, "Upstash-Not-Before",
                      FormatNotBefore(request.not_before.v))
    ELSE acc

WithDeduplicationId(acc, request) ==
    IF request.deduplication_id.some
    THEN PutDirective(acc, "Upstash-Deduplication-Id",
                      request.deduplication_id.v)
    ELSE acc

WithContentBasedDeduplication(acc, request) ==
    IF request.content_based_deduplication.some
    THEN PutDirective(acc, "Upstash-Content-Based-Deduplication",
                      FormatBool(request.content_based_deduplication.v))
    ELSE acc

WithRetries(acc, request) ==
    IF request.retries.some
    THEN PutDirective(acc, "Upstash-Retries", FormatRetries(request.retries.v))
    ELSE acc

WithCallback(acc, request) ==
    IF request.callback.some
    THEN PutDirective(acc, "Upstash-Callback", request.callback.v)
    ELSE acc

generate_headers(request) ==
    WithCallback(
      WithRetries(
        WithContentBasedDeduplication(
          WithDeduplicationId(
            WithNotBefore(
              WithDelay(WithMethod(request), request),
              request),
            request),
          request),
        request),
      request)

----------------------------------------------------------------------------
(* JSON response bodies.  A body is text that is no JSON at all (t =       *)
(* "malformed") or a JSON value: null, a boolean, a number, a string, an   *)
(* array (v a sequence of values) or an object (v a function from member   *)
(* names to values).                                                       *)

JNull == [t |-> "null", v |-> "null"]

JBool(b) == [t |-> "bool", v |-> b]

JNum(n) == [t |-> "num", v |-> n]

JStr(s) == [t |-> "str", v |-> s]

JArr(seq) == [t |-> "arr", v |-> seq]

JObj(members) == [t |-> "obj", v |-> members]

JMalformed == [t |-> "malformed", v |-> "{\"messageId\":"]

\* serde's Option<T>: null is None, a value of JSON type ty is Some, any
\* other value is an error
DecodeOption(j, ty) ==
    IF j.t = "null" THEN Ok(None)
    ELSE IF j.t = ty THEN Ok(Some(j.v))
    ELSE Err("invalid type")

\* the fields of QstashResponse in declaration order, with the member name
\* serde(rename_all = "camelCase") gives each and its JSON type
QstashResponseFields ==
    << [field |-> "message_id", ty |-> "str", wire |-> "messageId"],
       [field |-> "url", ty |-> "str", wire |-> "url"],
       [field |-> "error", ty |-> "str", wire |-> "error"],
       [field |-> "deduplicated", ty |-> "bool", wire |-> "deduplicated"] >>

\* a QstashResponse
Outcome(message_id, url, error, deduplicated) ==
    [deduplicated |-> deduplicated, error |-> error,
     message_id |-> message_id, url |-> url]

\* the Deserialize that derive(Deserialize) writes for QstashResponse, run by
\* serde_json: a JSON object is read by member name (a member that is absent
\* is None, a member of another name is ignored), a JSON array is read by
\* position and must hold exactly one element per field, anything else is an
\* error
DecodeQstashResponse(j) ==
    LET got == [i \in 1..4 |->
                   LET f == QstashResponseFields[i]
                   IN  IF j.t = "obj"
                       THEN (IF f.wire \in DOMAIN j.v
                             THEN DecodeOption(j.v[f.wire], f.ty)
                             ELSE Ok(None))
                       ELSE DecodeOption(j.v[i], f.ty)]
    IN  IF j.t = "obj" \/ (j.t = "arr" /\ Len(j.v) = 4)
        THEN IF \A i \in 1..4 : got[i].ok
             THEN Ok(Outcome(got[1].v, got[2].v, got[3].v, got[4].v))
             ELSE Err("invalid type")
        ELSE Err("invalid type")

\* a variant of DecodeVec that returns the elements last to first
DecodeVecReversed(j) ==
    IF j.t = "arr"
    THEN LET got == [i \in 1..Len(j.v) |-> DecodeQstashResponse(j.v[i])]
         IN  IF \A i \in 1..Len(j.v) : got[i].ok
             THEN Ok([i \in 1..Len(j.v) |-> got[Len(j.v) + 1 - i].v])
             ELSE Err("invalid type")
    ELSE Err("invalid type")

\* serde's Vec<QstashResponse>: a JSON array, each element a QstashResponse,
\* in the order of the array
DecodeVec(j) ==
    IF j.t = "arr"
    THEN LET got == [i \in 1..Len(j.v) |-> DecodeQstashResponse(j.v[i])]
         IN  IF \A i \in 1..Len(j.v) : got[i].ok
             THEN Ok([i \in 1..Len(j.v) |-> got[i].v])
             ELSE Err("invalid type")
    ELSE Err("invalid type")

----------------------------------------------------------------------------
(* URLs.  The text of a URL is a sequence of pieces; the pieces "?" and    *)
(* "#" are the delimiters a URL parser looks for.                          *)

\* the first position of piece d in text, Len(text) + 1 when it is absent
RECURSIVE IndexOf(_, _, _)
IndexOf(text, d, from) ==
    IF from > Len(text) THEN Len(text) + 1
    ELSE IF text[from] \in d THEN from
    ELSE IndexOf(text, d, from + 1)

\* Url::parse on the texts a base URL is given as: an http(s) URL has an
\* origin and a path, a mailto: URL cannot be a base, a text without a scheme
\* is no URL
UrlParse(text) ==
    CASE text = "https://qstash.upstash.io"
            -> Ok([cannot_be_a_base |-> FALSE,
                   origin |-> "https://qstash.upstash.io", path |-> <<"/">>])
      [] text = "https://qstash.upstash.com"
            -> Ok([cannot_be_a_base |-> FALSE,
                   origin |-> "https://qstash.upstash.com", path |-> <<"/">>])
      [] text = "https://proxy.example.com/qstash"
            -> Ok([cannot_be_a_base |-> FALSE,
                   origin |-> "https://proxy.example.com",
                   path |-> <<"/qstash">>])
      [] text = "mailto:ops@example.com"
            -> Ok([cannot_be_a_base |-> TRUE, origin |-> "mailto:",
                   path |-> <<"ops@example.com">>])
      [] OTHER -> Err("RelativeUrlWithoutBase")

\* Url::join on a reference that starts with "/": it fails on a base that
\* cannot be a base (mailto:, data:); otherwise the reference replaces the
\* path, query and fragment of the base: the path runs to the first "?" or
\* "#", the query from the first "?" to the "#", the fragment follows "#"
UrlJoin(base, reference) ==
    IF base.cannot_be_a_base
    THEN Err("RelativeUrlWithCannotBeABaseBase")
    ELSE LET hash == IndexOf(reference, {"#"}, 1)
             before == SubSeq(reference, 1, hash - 1)
             quest == IndexOf(before, {"?"}, 1)
         IN  [ok |-> TRUE,
              url |-> [fragment |-> IF hash <= Len(reference)
                                    THEN Some(SubSeq(reference, hash + 1,
                                                     Len(reference)))
                                    ELSE None,
                       origin |-> base.origin,
                       path |-> SubSeq(before, 1, quest - 1),
                       query |-> IF quest <= Len(before)
                                 THEN Some(SubSeq(before, quest + 1,
                                                  Len(before)))
                                 ELSE None]]

----------------------------------------------------------------------------
(* The client and the transport *)

\* "Bearer " followed by the token
BearerOf(token) == <<66, 101, 97, 114, 101, 114, 32>> \o token

\* the default headers Client::new gives the reqwest client
DefaultHeaders(token) ==
    HeaderMapInsert(EmptyHeaderMap, "Authorization", BearerOf(token))

\* match version.unwrap_or(Version::V2) { V1 => "v1", V2 => "v2" }
VersionSegment(version) ==
    CASE ~version.some -> "v2"
      [] version.v = "V1" -> "v1"
      [] version.v = "V2" -> "v2"

\* Client::new with the base URL checked before the token
ClientNewUrlFirst(token, base_url, version, built) ==
    LET value == HeaderValueFromStr(BearerOf(token))
        url == UrlParse(IF base_url.some THEN base_url.v
                        ELSE "https://qstash.upstash.io")
    IN  IF ~url.ok THEN Err("InvalidUrl")
        ELSE IF ~value.ok THEN Err("TokenError")
        ELSE IF ~built THEN Err("ReqwestError")
        ELSE Ok([base_url |-> url.v, default_headers |-> DefaultHeaders(token),
                 version |-> VersionSegment(version)])

\* Client::new: the Authorization header from the token, the HTTP client
\* built with it (built is whether reqwest's builder succeeds), the version
\* segment, the base URL parsed from the given text or from the default one
ClientNew(token, base_url, version, built) ==
    LET value == HeaderValueFromStr(BearerOf(token))
        url == UrlParse(IF base_url.some THEN base_url.v
                        ELSE "https://qstash.upstash.io")
    IN  IF ~value.ok THEN Err("TokenError")
        ELSE IF ~built THEN Err("ReqwestError")
        ELSE IF ~url.ok THEN Err("InvalidUrl")
        ELSE Ok([base_url |-> url.v, default_headers |-> DefaultHeaders(token),
                 version |-> VersionSegment(version)])

\* Client::new of src/src/client.rs, which takes no version: the
\* Authorization header from the token, the HTTP client built with it, the
\* base URL parsed from the given text or from the default one
ClientNewWithoutVersion(token, base_url, built) ==
    LET value == HeaderValueFromStr(BearerOf(token))
        url == UrlParse(IF base_url.some THEN base_url.v
                        ELSE "https://qstash.upstash.com")
    IN  IF ~value.ok THEN Err("TokenError")
        ELSE IF ~built THEN Err("ReqwestError")
        ELSE IF ~url.ok THEN Err("InvalidUrl")
        ELSE Ok([base_url |-> url.v, default_headers |-> DefaultHeaders(token)])

\* reqwest adds each default header whose name the request does not carry
WithDefaultHeaders(headers, defaults) ==
    [n \in DOMAIN headers \cup DOMAIN defaults |->
        IF n \in DOMAIN headers THEN headers[n] ELSE defaults[n]]

\* serde_json::to_vec on the body given to publish_json: the JSON text, or an
\* error for a value that JSON cannot hold (a map whose keys are no strings)
SerializeJson(value) ==
    CASE value = "map{test:test}" -> Ok("{\"test\":\"test\"}")
      [] value = "map{(1,2):test}" -> Err("key must be a string")
      [] OTHER -> Ok("null")

B_application_json ==
    <<97, 112, 112, 108, 105, 99, 97, 116, 105, 111, 110, 47, 106, 115, 111, 110>>

\* RequestBuilder::json: the body is the serialized value, and Content-Type:
\* application/json is set unless the request has a Content-Type already
WithJsonBody(req, text) ==
    [req EXCEPT !.body = Some(text),
                !.headers = IF "content-type" \in DOMAIN req.headers
                            THEN req.headers
                            ELSE HeaderMapInsert(req.headers, "Content-Type",
                                                 B_application_json)]

\* StatusCode::is_success
IsSuccess(status) == status >= 200 /\ status < 300

NoCall == [op |-> "none"]

NoReply == [kind |-> "none"]

\* match &request.url { Url(v) => v.to_string(), Topic(v) => v.clone() }
RequestUrl(url) == url.v

\* format!("/{}/publish/{}", self.version, request_url)
PublishPath(version, request_url) ==
    <<"/", version, "/publish/">> \o request_url

\* a variant of NormalizeResponse that fails on a status outside 200..299
NormalizeResponseForStatus(url, response) ==
    IF ~IsSuccess(response.status) THEN Err("PublishError")
    ELSE IF url.kind = "Url"
    THEN LET r == DecodeQstashResponse(response.body)
         IN  IF r.ok THEN Ok(<<r.v>>) ELSE Err("PublishError")
    ELSE LET r == DecodeVec(response.body)
         IN  IF r.ok THEN Ok(r.v) ELSE Err("PublishError")

\* a variant of NormalizeResponse that picks the decoding by the shape of the
\* body: an array as a list, anything else as one record
NormalizeResponseByShape(url, response) ==
    IF response.body.t # "arr"
    THEN LET r == DecodeQstashResponse(response.body)
         IN  IF r.ok THEN Ok(<<r.v>>) ELSE Err("PublishError")
    ELSE LET r == DecodeVec(response.body)
         IN  IF r.ok THEN Ok(r.v) ELSE Err("PublishError")

\* a variant of NormalizeResponse that fails when an outcome reports an error
NormalizeResponseErrorsFail(url, response) ==
    LET r == IF url.kind = "Url"
             THEN LET one == DecodeQstashResponse(response.body)
                  IN  IF one.ok THEN Ok(<<one.v>>) ELSE Err("PublishError")
             ELSE LET all == DecodeVec(response.body)
                  IN  IF all.ok THEN Ok(all.v) ELSE Err("PublishError")
    IN  IF r.ok /\ \E i \in 1..Len(r.v) : r.v[i].error.some
        THEN Err("PublishError")
        ELSE r

\* the match on the destination that ends publish and publish_json: a Url
\* destination reads the body as one QstashResponse and returns vec![r], a
\* Topic destination reads it as a Vec<QstashResponse>; the status of the
\* response is not looked at
NormalizeResponse(url, response) ==
    IF url.kind = "Url"
    THEN LET r == DecodeQstashResponse(response.body)
         IN  IF r.ok THEN Ok(<<r.v>>) ELSE Err("PublishError")
    ELSE LET r == DecodeVec(response.body)
         IN  IF r.ok THEN Ok(r.v) ELSE Err("PublishError")

\* the PublishOptions that publish builds from the fields of its request
OptionsOfRequest(request) ==
    [callback |-> request.callback,
     content_based_deduplication |-> request.content_based_deduplication,
     deduplication_id |-> request.deduplication_id,
     delay |-> request.delay, headers |-> request.headers,
     method |-> request.method, not_before |-> request.not_before,
     retries |-> request.retries]
\* a variant of PublishHttpRequest whose verb is the method of the options
PublishHttpRequestWithMethodVerb(path, headers, body) ==
    [body |-> body,
     headers |-> WithDefaultHeaders(headers, client.default_headers),
     url |-> path,
     verb |-> IF "upstash-method" \in DOMAIN headers
                 /\ headers["upstash-method"] = <<B_GET>>
              THEN "GET" ELSE "POST"]

\* a variant of PublishHttpRequest that sends an empty body for no body
PublishHttpRequestEmptyBody(path, headers, body) ==
    [body |-> IF body.some THEN body ELSE Some(""),
     headers |-> WithDefaultHeaders(headers, client.default_headers),
     url |-> path, verb |-> "POST"]

\* self.http.request(Method::POST, path).headers(headers), and the body when
\* there is one; the client's default headers join at send
PublishHttpRequest(path, headers, body) ==
    [body |-> body,
     headers |-> WithDefaultHeaders(headers, client.default_headers),
     url |-> path, verb |-> "POST"]

----------------------------------------------------------------------------
(* The inputs of the encoder *)

PassNames ==
    {HeaderNameOf(s) : s \in DirectiveSpellings \cup {"Content-Type"}}

\* "v1", "v2", ...
PassValue(i) == <<118, 48 + i>>

PassValueSeqs ==
    {[i \in 1..n |-> PassValue(i)] : n \in 1..MaxHeaderValues}

PassThroughMaps ==
    UNION {[S -> PassValueSeqs] :
             S \in {T \in SUBSET PassNames : Cardinality(T) <= MaxPassNames}}

OptionOf(S) == {None} \cup {Some(x) : x \in S}

PublishOptionsSet ==
    [callback : OptionOf({B_cb, B_c_DEL}),
     content_based_deduplication : OptionOf(BOOLEAN),
     deduplication_id : OptionOf({B_abc, B_a_LF_b}),
     delay : OptionOf({0, 30}),
     headers : OptionOf(PassThroughMaps),
     method : OptionOf({"GET"}),
     not_before : OptionOf({1700000000}),
     retries : OptionOf({5, 2147483647})]

----------------------------------------------------------------------------
(* The inputs of the pipeline *)

\* the largest number of outcomes in a response array
MaxOutcomes == 3

B_token == <<116, 111, 107>>

\* a token with a line feed in it
B_to_LF == <<116, 111, 10>>

\* the arguments Client::new is called with
\* another token
B_key == <<107, 101, 121>>

\* a token with a NUL byte in it
B_k_NUL == <<107, 0>>

NewArgs ==
    [base_url : {None, Some("https://qstash.upstash.io"),
                 Some("https://proxy.example.com/qstash"),
                 Some("mailto:ops@example.com"), Some("qstash.upstash.io")},
     token : {B_token, B_key, B_to_LF, B_k_NUL},
     version : {None, Some("V1"), Some("V2")}]

New(a) == ClientNew(a.token, a.base_url, a.version, TRUE)

\* the clients Client::new returns
Clients == {New(a).v : a \in {b \in NewArgs : New(b).ok}}

Destinations ==
    {[kind |-> "Url", v |-> <<"https://example.com/">>],
     [kind |-> "Url", v |-> <<"https://example.com/hook", "?", "a=1", "#", "top">>],
     [kind |-> "Topic", v |-> <<"my-topic">>]}

NoOptions ==
    [callback |-> None, content_based_deduplication |-> None,
     deduplication_id |-> None, delay |-> None, headers |-> None,
     method |-> None, not_before |-> None, retries |-> None]

PipelineOptions ==
    {NoOptions,
     [NoOptions EXCEPT !.delay = Some(30), !.not_before = Some(1700000000)],
     [NoOptions EXCEPT !.deduplication_id = Some(B_a_LF_b),
                       !.delay = Some(30)],
     [NoOptions EXCEPT !.headers = Some("content-type" :> <<PassValue(1)>>),
                       !.method = Some("GET"), !.retries = Some(5)],
     [NoOptions EXCEPT !.headers = Some("authorization" :> <<PassValue(1)>>)]}

RawBodies == {None, Some("hello")}

JsonValues == {"map{test:test}", "map{(1,2):test}"}

PublishRequests ==
    {[body |-> b, callback |-> o.callback,
      content_based_deduplication |-> o.content_based_deduplication,
      deduplication_id |-> o.deduplication_id, delay |-> o.delay,
      headers |-> o.headers, method |-> o.method,
      not_before |-> o.not_before, retries |-> o.retries, url |-> u] :
        u \in Destinations, b \in RawBodies, o \in PipelineOptions}

\* the PublishRequest with this destination, these options and no body
RequestWith(url, o) ==
    [body |-> None, callback |-> o.callback,
     content_based_deduplication |-> o.content_based_deduplication,
     deduplication_id |-> o.deduplication_id, delay |-> o.delay,
     headers |-> o.headers, method |-> o.method,
     not_before |-> o.not_before, retries |-> o.retries, url |-> url]

\* {"messageId":"abc","url":"https://example.com"}
O_ok == JObj("messageId" :> JStr("abc") @@ "url" :> JStr("https://example.com"))

\* {"messageId":"b","deduplicated":true}
O_dedup == JObj("messageId" :> JStr("b") @@ "deduplicated" :> JBool(TRUE))

\* {"error":"invalid token"}
O_error == JObj("error" :> JStr("invalid token"))

\* {"messageId":"a","error":"quota exceeded"}
O_both == JObj("messageId" :> JStr("a") @@ "error" :> JStr("quota exceeded"))

\* {"messageId":5}
O_badtype == JObj("messageId" :> JNum(5))

\* {"messageId":"abc","retried":1,"error":null}
O_extra ==
    JObj("messageId" :> JStr("abc") @@ "retried" :> JNum(1) @@ "error" :> JNull)

\* {}
O_empty == JObj([k \in {} |-> JNull])

\* the response bodies of the model that are no array of outcome objects
SampleBody(i) ==
    CASE i = 1 -> JMalformed
      [] i = 2 -> JNull
      [] i = 3 -> JNum(5)
      [] i = 4 -> JStr("ok")
      [] i = 5 -> O_ok
      [] i = 6 -> O_dedup
      [] i = 7 -> O_error
      [] i = 8 -> O_both
      [] i = 9 -> O_badtype
      [] i = 10 -> O_extra
      [] i = 11 -> O_empty
      [] i = 12 -> JArr(<<JNull, JNull, JNull, JNull>>)
      [] i = 13 -> JArr(<<JStr("abc"), JStr("https://example.com"), JNull,
                          JBool(TRUE)>>)
      [] i = 14 -> JArr(<<JNull, JNull, JNull>>)
      [] i = 15 -> JArr(<<O_ok, O_badtype>>)
      [] i = 16 -> JArr(<<O_both>>)
      [] i = 17 -> JArr(<<JArr(<<JStr("abc"), JNull, JNull, JNull>>)>>)

SampleBodyIds == 1..17

\* the outcome objects a response array of the model is made of
ListElem(k) ==
    CASE k = 1 -> O_ok
      [] k = 2 -> O_dedup
      [] k = 3 -> O_error

ListElemIds == 1..3

\* the response array whose i-th element is outcome object picks[i]
ListBody(picks) == JArr([i \in 1..Len(picks) |-> ListElem(picks[i])])

ListPicks == UNION {[1..n -> ListElemIds] : n \in 0..MaxOutcomes}

StatusCodes == {200, 401, 500}

Response(status, body) ==
    [body |-> body, kind |-> "response", status |-> status]

----------------------------------------------------------------------------
(* Client::publish and Client::publish_json, src/src/client/publish.rs, and *)
(* the transport they wait for                                              *)

\* what publish does up to the await of send: the path, the headers, and
\* the request it hands to the transport, or the error it returns
PublishSend(request) ==
    LET request_url == RequestUrl(request.url)
        path == UrlJoin(client.base_url,
                        PublishPath(client.version, request_url))
        headers == generate_headers(OptionsOfRequest(request))
    IN  IF ~path.ok \/ ~headers.ok
        THEN Err("PublishError")
        ELSE Ok(PublishHttpRequest(path.url, headers.headers, request.body))

\* what publish_json does up to the await of send; a body that does not
\* serialize makes send fail before anything is sent
PublishJsonSend(url, body, options) ==
    LET request_url == RequestUrl(url)
        path == UrlJoin(client.base_url,
                        PublishPath(client.version, request_url))
        headers == IF options.some THEN generate_headers(options.v)
                   ELSE HeadersOk(EmptyHeaderMap)
        text == SerializeJson(body)
    IN  IF ~path.ok \/ ~headers.ok \/ ~text.ok
        THEN Err("PublishError")
        ELSE Ok(WithJsonBody(PublishHttpRequest(path.url, headers.headers,
                                                None),
                             text.v))

\* what publish and publish_json do after the await: a failure of send is
\* PublishError, a response is decoded by the destination
PublishReceive(url, answer) ==
    IF answer.kind = "failure" THEN Err("PublishError")
    ELSE NormalizeResponse(url, answer)

\* publish, up to the await of send
Publish(request) ==
    /\ pc = "idle"
    /\ call' = [op |-> "publish", request |-> request, url |-> request.url]
    /\ LET sent == PublishSend(request)
       IN  IF ~sent.ok
           THEN /\ result' = sent
                /\ pc' = "done"
                /\ outbound' = outbound
           ELSE /\ outbound' = Append(outbound, sent.v)
                /\ pc' = "awaiting"
                /\ result' = result
    /\ UNCHANGED <<new_in, new_out, tasks, client, reply, encVars>>

\* publish_json, up to the await of send
PublishJson(url, body, options) ==
    /\ pc = "idle"
    /\ call' = [body |-> body, op |-> "publish_json", options |-> options,
                url |-> url]
    /\ LET sent == PublishJsonSend(url, body, options)
       IN  IF ~sent.ok
           THEN /\ result' = sent
                /\ pc' = "done"
                /\ outbound' = outbound
           ELSE /\ outbound' = Append(outbound, sent.v)
                /\ pc' = "awaiting"
                /\ result' = result
    /\ UNCHANGED <<new_in, new_out, tasks, client, reply, encVars>>

\* the transport answers the request with a response, of any status
TransportResponds(response) ==
    /\ pc = "awaiting"
    /\ reply' = response
    /\ pc' = "received"
    /\ UNCHANGED <<new_in, new_out, tasks, client, call, outbound, result, encVars>>

\* the transport fails: no connection, a timeout, a broken response
TransportFails ==
    /\ pc = "awaiting"
    /\ reply' = [kind |-> "failure"]
    /\ pc' = "received"
    /\ UNCHANGED <<new_in, new_out, tasks, client, call, outbound, result, encVars>>

\* a variant of PublishResume that sends the request again when the send
\* failed and the retries option is set
PublishResumeRetrying ==
    /\ pc = "received"
    /\ call.op = "publish"
    /\ IF reply.kind = "failure" /\ call.request.retries.some
          /\ Len(outbound) <= call.request.retries.v
       THEN /\ outbound' = Append(outbound, outbound[1])
            /\ pc' = "awaiting"
            /\ result' = result
       ELSE /\ result' = PublishReceive(call.request.url, reply)
            /\ pc' = "done"
            /\ outbound' = outbound
    /\ UNCHANGED <<new_in, new_out, tasks, client, call, reply, encVars>>
\* a variant of PublishResume that waits for another answer when the send
\* failed
PublishResumeWaiting ==
    /\ pc = "received"
    /\ call.op = "publish"
    /\ IF reply.kind = "failure"
       THEN /\ pc' = "awaiting"
            /\ result' = result
       ELSE /\ result' = PublishReceive(call.request.url, reply)
            /\ pc' = "done"
    /\ UNCHANGED <<new_in, new_out, tasks, client, call, outbound, reply, encVars>>

\* publish after the await
PublishResume ==
    /\ pc = "received"
    /\ call.op = "publish"
    /\ result' = PublishReceive(call.request.url, reply)
    /\ pc' = "done"
    /\ UNCHANGED <<new_in, new_out, tasks, client, call, outbound, reply, encVars>>

\* publish_json after the await
PublishJsonResume ==
    /\ pc = "received"
    /\ call.op = "publish_json"
    /\ result' = PublishReceive(call.url, reply)
    /\ pc' = "done"
    /\ UNCHANGED <<new_in, new_out, tasks, client, call, outbound, reply, encVars>>

\* the caller has the result; the client is ready for the next invocation
Return ==
    /\ pc = "done"
    /\ pc' = "idle"
    /\ call' = NoCall
    /\ outbound' = <<>>
    /\ reply' = NoReply
    /\ result' = NotRun
    /\ UNCHANGED <<new_in, new_out, tasks, client, encVars>>

PipeIdle ==
    /\ pc = "idle"
    /\ call = NoCall
    /\ outbound = <<>>
    /\ reply = NoReply
    /\ result = NotRun

\* no invocation runs concurrently
NoTasks == <<>>

Init ==
    /\ new_in \in {a \in NewArgs : a.token = B_token}
    /\ new_out = New(new_in)
    /\ new_out.ok
    /\ client = new_out.v
    /\ PipeIdle
    /\ tasks = NoTasks
    /\ enc_in = NoOptions
    /\ enc_out = NotRun

Next ==
    \/ \E request \in PublishRequests : Publish(request)
    \/ \E url \in Destinations, body \in JsonValues,
          options \in OptionOf(PipelineOptions) : PublishJson(url, body, options)
    \/ \E status \in StatusCodes, i \in SampleBodyIds :
          TransportResponds(Response(status, SampleBody(i)))
    \/ \E status \in StatusCodes, picks \in ListPicks :
          TransportResponds(Response(status, ListBody(picks)))
    \/ TransportFails
    \/ PublishResume
    \/ PublishJsonResume
    \/ Return

Spec == Init /\ [][Next]_vars

----------------------------------------------------------------------------
(* The pipeline with a transport that answers and a runtime that polls: the *)
(* await of send is the one place where publish and publish_json wait       *)

LiveInit ==
    /\ new_in = [base_url |-> None, token |-> B_token, version |-> None]
    /\ new_out = New(new_in)
    /\ client = new_out.v
    /\ PipeIdle
    /\ tasks = NoTasks
    /\ enc_in = NoOptions
    /\ enc_out = NotRun

\* the transport answers the send it was handed
TransportAnswers ==
    \/ \E status \in StatusCodes, i \in SampleBodyIds :
          TransportResponds(Response(status, SampleBody(i)))
    \/ \E status \in StatusCodes, picks \in ListPicks :
          TransportResponds(Response(status, ListBody(picks)))
    \/ TransportFails

SpecLive ==
    /\ LiveInit
    /\ [][Next]_vars
    /\ WF_vars(TransportAnswers)
    /\ WF_vars(PublishResume)
    /\ WF_vars(PublishJsonResume)

----------------------------------------------------------------------------
(* The encoder on its own: one call of generate_headers on any options *)

EncInit ==
    /\ enc_in \in PublishOptionsSet
    /\ enc_out = NotRun
    /\ new_in = [base_url |-> None, token |-> B_token, version |-> None]
    /\ new_out = New(new_in)
    /\ client = new_out.v
    /\ PipeIdle
    /\ tasks = NoTasks

Encode ==
    /\ enc_out = NotRun
    /\ enc_out' = generate_headers(enc_in)
    /\ UNCHANGED <<enc_in, pipeVars, tasks>>

EncNext == Encode

SpecEnc == EncInit /\ [][EncNext]_vars

----------------------------------------------------------------------------
(* The constructors on their own: one call of Client::new on any arguments *)

\* no client has been made
NoClient == [kind |-> "none"]

NewInit ==
    /\ new_in \in NewArgs
    /\ new_out = NotRun
    /\ client = NoClient
    /\ PipeIdle
    /\ enc_in = NoOptions
    /\ enc_out = NotRun
    /\ tasks = NoTasks

\* Client::new of src/src/client/mod.rs is called
NewClient ==
    /\ ~new_out.ok /\ new_out.err = "NotRun"
    /\ \E built \in BOOLEAN :
           new_out' = ClientNew(new_in.token, new_in.base_url, new_in.version,
                                built)
    /\ client' = IF new_out'.ok THEN new_out'.v ELSE client
    /\ UNCHANGED <<new_in, tasks, pc, call, outbound, reply, result, encVars>>

\* Client::new of src/src/client.rs is called; it has no version argument
NewClientWithoutVersion ==
    /\ ~new_out.ok /\ new_out.err = "NotRun"
    /\ ~new_in.version.some
    /\ \E built \in BOOLEAN :
           new_out' = ClientNewWithoutVersion(new_in.token, new_in.base_url,
                                              built)
    /\ client' = IF new_out'.ok THEN new_out'.v ELSE client
    /\ UNCHANGED <<new_in, tasks, pc, call, outbound, reply, result, encVars>>

NewNext == NewClient \/ NewClientWithoutVersion

SpecNew == NewInit /\ [][NewNext]_vars

----------------------------------------------------------------------------
(* Concurrent invocations on one client.  publish and publish_json take    *)
(* &self: an invocation reads the client and keeps everything else in its  *)
(* own future, which is suspended at the await of send.                    *)

\* the largest number of invocations that run at the same time
MaxTasks == 2

Tasks == 1..MaxTasks

\* an invocation that has not been called yet
IdleTask ==
    [call |-> NoCall, outbound |-> <<>>, pc |-> "idle", reply |-> NoReply,
     result |-> NotRun]

\* an invocation after its first step: suspended at the await with its
\* request handed to the transport, or returned with an error
StartedTask(this, sent) ==
    IF sent.ok
    THEN [call |-> this, outbound |-> <<sent.v>>, pc |-> "awaiting",
          reply |-> NoReply, result |-> NotRun]
    ELSE [call |-> this, outbound |-> <<>>, pc |-> "done",
          reply |-> NoReply, result |-> sent]

\* the requests and the responses of the concurrent invocations
ConcRequests ==
    {RequestWith([kind |-> "Url", v |-> <<"https://example.com/">>], NoOptions),
     [RequestWith([kind |-> "Topic", v |-> <<"my-topic">>],
                  [NoOptions EXCEPT !.method = Some("GET"),
                                    !.retries = Some(5)])
        EXCEPT !.body = Some("hello")],
     RequestWith([kind |-> "Url", v |-> <<"https://example.com/">>],
                 [NoOptions EXCEPT !.deduplication_id = Some(B_a_LF_b)])}

ConcResponseIds == 1..3

ConcResponse(i) ==
    CASE i = 1 -> Response(200, O_ok)
      [] i = 2 -> Response(200, ListBody(<<1, 3>>))
      [] i = 3 -> Response(401, O_error)

\* task t calls publish
TaskPublish(t, request) ==
    /\ tasks[t].pc = "idle"
    /\ tasks' = [tasks EXCEPT ![t] =
                    StartedTask([op |-> "publish", request |-> request,
                                 url |-> request.url],
                                PublishSend(request))]
    /\ UNCHANGED <<pipeVars, encVars>>

\* task t calls publish_json
TaskPublishJson(t, url, body, options) ==
    /\ tasks[t].pc = "idle"
    /\ tasks' = [tasks EXCEPT ![t] =
                    StartedTask([body |-> body, op |-> "publish_json",
                                 options |-> options, url |-> url],
                                PublishJsonSend(url, body, options))]
    /\ UNCHANGED <<pipeVars, encVars>>

\* the transport answers the request of task t
TaskTransportResponds(t, response) ==
    /\ tasks[t].pc = "awaiting"
    /\ tasks' = [tasks EXCEPT ![t].reply = response, ![t].pc = "received"]
    /\ UNCHANGED <<pipeVars, encVars>>

\* the send of task t fails
TaskTransportFails(t) ==
    /\ tasks[t].pc = "awaiting"
    /\ tasks' = [tasks EXCEPT ![t].reply = [kind |-> "failure"],
                              ![t].pc = "received"]
    /\ UNCHANGED <<pipeVars, encVars>>
\* a variant of TaskResume in which the response is read from a place the
\* invocations share: task t may get the reply of any task
TaskResumeAnyReply(t) ==
    /\ tasks[t].pc = "received"
    /\ \E u \in Tasks :
          /\ tasks[u].reply.kind # "none"
          /\ tasks' = [tasks EXCEPT
                          ![t].result = PublishReceive(tasks[t].call.url,
                                                       tasks[u].reply),
                          ![t].pc = "done"]
    /\ UNCHANGED <<pipeVars, encVars>>

\* task t is resumed after the await and returns
TaskResume(t) ==
    /\ tasks[t].pc = "received"
    /\ tasks' = [tasks EXCEPT
                    ![t].result = PublishReceive(tasks[t].call.url,
                                                 tasks[t].reply),
                    ![t].pc = "done"]
    /\ UNCHANGED <<pipeVars, encVars>>

ConcInit ==
    /\ new_in \in {a \in NewArgs : a.token = B_token /\ ~a.version.some}
    /\ new_out = New(new_in)
    /\ new_out.ok
    /\ client = new_out.v
    /\ PipeIdle
    /\ enc_in = NoOptions
    /\ enc_out = NotRun
    /\ tasks = [t \in Tasks |-> IdleTask]

ConcNext ==
    \/ \E t \in Tasks, request \in ConcRequests : TaskPublish(t, request)
    \/ \E t \in Tasks :
          TaskPublishJson(t, [kind |-> "Topic", v |-> <<"my-topic">>],
                          "map{test:test}", None)
    \/ \E t \in Tasks, i \in ConcResponseIds :
          TaskTransportResponds(t, ConcResponse(i))
    \/ \E t \in Tasks : TaskTransportFails(t)
    \/ \E t \in Tasks : TaskResume(t)

SpecConc == ConcInit /\ [][ConcNext]_vars

----------------------------------------------------------------------------
(* The read-side operations: get_message and cancel_message of             *)
(* src/src/client/messages.rs, get_events of src/src/client/events.rs,     *)
(* get_dead_letter_queue of src/src/client/dead_letter_queue.rs            *)

\* the largest number of events in a response
MaxEvents == 2

\* the variants of State
States ==
    {"CREATED", "ACTIVE", "DELIVERED", "ERROR", "CANCELED", "RETRY", "FAILED"}

\* the Deserialize that derive(Deserialize) writes for State, run on a JSON
\* value: a string that is the name of a variant, or an object whose one
\* member has the name of a variant and the value null; anything else is an
\* error
DecodeState(j) ==
    IF j.t = "str"
    THEN (IF j.v \in States THEN Ok(j.v) ELSE Err("unknown variant"))
    ELSE IF j.t = "obj" /\ Cardinality(DOMAIN j.v) = 1
    THEN LET name == CHOOSE n \in DOMAIN j.v : TRUE
         IN  IF name \in States /\ j.v[name].t = "null" THEN Ok(name)
             ELSE Err("unknown variant")
    ELSE Err("invalid type")

\* a variant of ok_or_default that returns the error of the decoding
ok_or_error(j) == DecodeState(j)

\* ok_or_default on a state: the value is read as it is, then decoded; a
\* value that is no State gives the default, ERROR
ok_or_default(j) ==
    LET decoded == DecodeState(j)
    IN  Ok(IF decoded.ok THEN decoded.v ELSE "ERROR")

\* the JSON value has the type of a field: a string, a number, or a map from
\* names to lists of strings
HasType(j, ty) ==
    IF ty = "map"
    THEN /\ j.t = "obj"
         /\ \A n \in DOMAIN j.v :
               /\ j.v[n].t = "arr"
               /\ \A i \in 1..Len(j.v[n].v) : j.v[n].v[i].t = "str"
    ELSE j.t = ty

\* one field of a struct: a required field needs a value of its type, an
\* Option field is None when the member is absent or null, a field with
\* deserialize_with needs a value and hands it to ok_or_default
DecodeField(f, j, present) ==
    CASE f.kind = "required"
            -> IF present /\ HasType(j, f.ty) THEN Ok(j.v)
               ELSE Err("invalid type")
      [] f.kind = "option"
            -> IF ~present \/ j.t = "null" THEN Ok(None)
               ELSE IF HasType(j, f.ty) THEN Ok(Some(j.v))
               ELSE Err("invalid type")
      [] f.kind = "ok_or_default"
            -> IF present THEN ok_or_default(j) ELSE Err("missing field")

\* the Deserialize that derive(Deserialize) writes for a struct with these
\* fields: a JSON object is read by member name, a JSON array by position
\* with one element per field, anything else is an error
DecodeStruct(j, fields) ==
    LET n == Len(fields)
        got == [i \in 1..n |->
                   IF j.t = "obj"
                   THEN (IF fields[i].wire \in DOMAIN j.v
                         THEN DecodeField(fields[i], j.v[fields[i].wire], TRUE)
                         ELSE DecodeField(fields[i], JNull, FALSE))
                   ELSE DecodeField(fields[i], j.v[i], TRUE)]
    IN  IF j.t = "obj" \/ (j.t = "arr" /\ Len(j.v) = n)
        THEN IF \A i \in 1..n : got[i].ok
             THEN Ok([name \in {fields[i].field : i \in 1..n} |->
                         got[CHOOSE i \in 1..n : fields[i].field = name].v])
             ELSE Err("invalid type")
        ELSE Err("invalid type")

\* serde's Vec<T> for a struct T with these fields
DecodeStructs(j, fields) ==
    IF j.t = "arr"
    THEN LET got == [i \in 1..Len(j.v) |-> DecodeStruct(j.v[i], fields)]
         IN  IF \A i \in 1..Len(j.v) : got[i].ok
             THEN Ok([i \in 1..Len(j.v) |-> got[i].v])
             ELSE Err("invalid type")
    ELSE Err("invalid type")

\* the fields of Message in declaration order
MessageFields ==
    << [field |-> "message_id", kind |-> "required", ty |-> "str",
        wire |-> "messageId"],
       [field |-> "url", kind |-> "required", ty |-> "str", wire |-> "url"],
       [field |-> "topic_name", kind |-> "option", ty |-> "str",
        wire |-> "topicName"],
       [field |-> "endpoint_name", kind |-> "option", ty |-> "str",
        wire |-> "endpointName"],
       [field |-> "key", kind |-> "option", ty |-> "str", wire |-> "key"],
       [field |-> "method", kind |-> "option", ty |-> "str",
        wire |-> "method"],
       [field |-> "header", kind |-> "option", ty |-> "map",
        wire |-> "header"],
       [field |-> "body", kind |-> "option", ty |-> "str", wire |-> "body"],
       [field |-> "max_retries", kind |-> "option", ty |-> "num",
        wire |-> "maxRetries"],
       [field |-> "not_before", kind |-> "option", ty |-> "num",
        wire |-> "notBefore"],
       [field |-> "created_at", kind |-> "required", ty |-> "num",
        wire |-> "createdAt"],
       [field |-> "callback", kind |-> "option", ty |-> "str",
        wire |-> "callback"] >>

\* the fields of Event in declaration order
EventFields ==
    << [field |-> "time", kind |-> "required", ty |-> "num", wire |-> "time"],
       [field |-> "state", kind |-> "ok_or_default", ty |-> "State",
        wire |-> "state"],
       [field |-> "message_id", kind |-> "required", ty |-> "str",
        wire |-> "messageId"],
       [field |-> "next_delivery_time", kind |-> "option", ty |-> "num",
        wire |-> "nextDeliveryTime"],
       [field |-> "error", kind |-> "option", ty |-> "str", wire |-> "error"],
       [field |-> "url", kind |-> "option", ty |-> "str", wire |-> "url"],
       [field |-> "topic_name", kind |-> "option", ty |-> "str",
        wire |-> "topicName"],
       [field |-> "endpoint_name", kind |-> "option", ty |-> "str",
        wire |-> "endpointName"] >>

\* the fields of DlqMessage in declaration order
DlqMessageFields ==
    << [field |-> "message_id", kind |-> "required", ty |-> "str",
        wire |-> "messageId"],
       [field |-> "url", kind |-> "required", ty |-> "str", wire |-> "url"],
       [field |-> "topic_name", kind |-> "option", ty |-> "str",
        wire |-> "topicName"],
       [field |-> "endpoint_name", kind |-> "option", ty |-> "str",
        wire |-> "endpointName"],
       [field |-> "key", kind |-> "option", ty |-> "str", wire |-> "key"],
       [field |-> "method", kind |-> "required", ty |-> "str",
        wire |-> "method"],
       [field |-> "header", kind |-> "option", ty |-> "map",
        wire |-> "header"],
       [field |-> "body", kind |-> "option", ty |-> "str", wire |-> "body"],
       [field |-> "max_retries", kind |-> "option", ty |-> "num",
        wire |-> "maxRetries"],
       [field |-> "not_before", kind |-> "option", ty |-> "num",
        wire |-> "notBefore"],
       [field |-> "created_at", kind |-> "required", ty |-> "num",
        wire |-> "createdAt"],
       [field |-> "callback", kind |-> "option", ty |-> "str",
        wire |-> "callback"],
       [field |-> "dlq_id", kind |-> "required", ty |-> "str",
        wire |-> "dlqId"] >>

\* GetEventsResponse: an object with the members cursor, an Option<String>,
\* and events, a Vec<Event>, or an array of the two
DecodeGetEventsResponse(j) ==
    LET cursor == IF j.t = "obj"
                  THEN (IF "cursor" \in DOMAIN j.v
                        THEN DecodeField([kind |-> "option", ty |-> "str"],
                                         j.v["cursor"], TRUE)
                        ELSE Ok(None))
                  ELSE DecodeField([kind |-> "option", ty |-> "str"],
                                   j.v[1], TRUE)
        events == IF j.t = "obj"
                  THEN (IF "events" \in DOMAIN j.v
                        THEN DecodeStructs(j.v["events"], EventFields)
                        ELSE Err("missing field"))
                  ELSE DecodeStructs(j.v[2], EventFields)
    IN  IF j.t = "obj" \/ (j.t = "arr" /\ Len(j.v) = 2)
        THEN IF cursor.ok /\ events.ok
             THEN Ok([cursor |-> cursor.v, events |-> events.v])
             ELSE Err("invalid type")
        ELSE Err("invalid type")

\* DlqResponse: an object with the member messages, a Vec<DlqMessage>, or an
\* array of that one element
DecodeDlqResponse(j) ==
    LET messages == IF j.t = "obj"
                    THEN (IF "messages" \in DOMAIN j.v
                          THEN DecodeStructs(j.v["messages"], DlqMessageFields)
                          ELSE Err("missing field"))
                    ELSE DecodeStructs(j.v[1], DlqMessageFields)
    IN  IF j.t = "obj" \/ (j.t = "arr" /\ Len(j.v) = 1)
        THEN IF messages.ok THEN Ok([messages |-> messages.v])
             ELSE Err("invalid type")
        ELSE Err("invalid type")

\* format!("/{}/messages/{}", self.version, message_id)
MessagePath(version, message_id) == <<"/", version, "/messages/">> \o message_id

\* format!("/{}/events", self.version)
EventsPath(version) == <<"/", version, "/events">>

\* format!("/{}/dlq", self.version)
DlqPath(version) == <<"/", version, "/dlq">>

\* path.set_query(Some(&format!("cursor={}", cursor))) when the request has
\* a cursor
WithCursor(url, request) ==
    IF request.some /\ request.v.cursor.some
    THEN [url EXCEPT !.query = Some(<<"cursor=", ToDecimal(request.v.cursor.v)>>)]
    ELSE url

\* self.http.get(path) and self.http.delete(path): a request with the verb,
\* the URL, no body and the default headers of the client
ReadHttpRequest(verb, url) ==
    [body |-> None,
     headers |-> WithDefaultHeaders(EmptyHeaderMap, client.default_headers),
     url |-> url, verb |-> verb]

\* a variant of CancelReceive that does not look at the status
CancelReceiveAnyStatus(answer) ==
    IF answer.kind = "failure" THEN Err("DeleteMessageError")
    ELSE Ok("()")

\* cancel_message after the await: a failure of send and a status outside
\* 200..299 are DeleteMessageError, the body is not read
CancelReceive(answer) ==
    IF answer.kind = "failure" THEN Err("DeleteMessageError")
    ELSE IF IsSuccess(answer.status) THEN Ok("()")
    ELSE Err("DeleteMessageError")

\* get_message after the await: the body of any response is decoded as a
\* Message
GetMessageReceive(answer) ==
    IF answer.kind = "failure" THEN Err("GetMessageError")
    ELSE LET r == DecodeStruct(answer.body, MessageFields)
         IN  IF r.ok THEN r ELSE Err("GetMessageError")

\* get_events after the await
GetEventsReceive(answer) ==
    IF answer.kind = "failure" THEN Err("EventError")
    ELSE LET r == DecodeGetEventsResponse(answer.body)
         IN  IF r.ok THEN r ELSE Err("EventError")

\* get_dead_letter_queue after the await
GetDeadLetterQueueReceive(answer) ==
    IF answer.kind = "failure" THEN Err("EventError")
    ELSE LET r == DecodeDlqResponse(answer.body)
         IN  IF r.ok THEN r ELSE Err("EventError")

\* a read-side operation up to the await of send: the call, then the error
\* of the path or the request handed to the transport
ReadSend(invocation, path, error, verb, request) ==
    /\ pc = "idle"
    /\ call' = invocation
    /\ IF ~path.ok
       THEN /\ result' = Err(error)
            /\ pc' = "done"
            /\ outbound' = outbound
       ELSE /\ outbound' = Append(outbound,
                                  ReadHttpRequest(verb,
                                                  WithCursor(path.url, request)))
            /\ pc' = "awaiting"
            /\ result' = result
    /\ UNCHANGED <<new_in, new_out, tasks, client, reply, encVars>>

\* a read-side operation after the await
ReadResume(op, received) ==
    /\ pc = "received"
    /\ call.op = op
    /\ result' = received
    /\ pc' = "done"
    /\ UNCHANGED <<new_in, new_out, tasks, client, call, outbound, reply, encVars>>

\* get_message, up to the await of send
GetMessage(message_id) ==
    ReadSend([message_id |-> message_id, op |-> "get_message"],
             UrlJoin(client.base_url, MessagePath(client.version, message_id)),
             "GetMessageError", "GET", None)

GetMessageResume == ReadResume("get_message", GetMessageReceive(reply))

\* cancel_message, up to the await of send
CancelMessage(message_id) ==
    ReadSend([message_id |-> message_id, op |-> "cancel_message"],
             UrlJoin(client.base_url, MessagePath(client.version, message_id)),
             "DeleteMessageError", "DELETE", None)

CancelMessageResume == ReadResume("cancel_message", CancelReceive(reply))

\* get_events, up to the await of send
GetEvents(request) ==
    ReadSend([op |-> "get_events", request |-> request],
             UrlJoin(client.base_url, EventsPath(client.version)),
             "EventError", "GET", request)

GetEventsResume == ReadResume("get_events", GetEventsReceive(reply))

\* get_dead_letter_queue, up to the await of send
GetDeadLetterQueue(request) ==
    ReadSend([op |-> "get_dead_letter_queue", request |-> request],
             UrlJoin(client.base_url, DlqPath(client.version)),
             "PublishError", "GET", request)

GetDeadLetterQueueResume ==
    ReadResume("get_dead_letter_queue", GetDeadLetterQueueReceive(reply))

\* the message ids of the model, as the service issues them
MessageIds == {<<"msg_1">>, <<"msg_2">>}

\* the EventRequest and DlqRequest values of the model
CursorRequests == {None, Some([cursor |-> None]), Some([cursor |-> Some(42)])}

ReadStatusCodes == {200, 299, 300, 404}

\* {"time":1,"state":"DELIVERED","messageId":"msg_1"}
E_delivered ==
    JObj("time" :> JNum(1) @@ "state" :> JStr("DELIVERED")
           @@ "messageId" :> JStr("msg_1"))

\* {"time":2,"state":"PENDING","messageId":"msg_2","url":"https://example.com"}
E_pending ==
    JObj("time" :> JNum(2) @@ "state" :> JStr("PENDING")
           @@ "messageId" :> JStr("msg_2")
           @@ "url" :> JStr("https://example.com"))

\* {"time":3,"state":"CREATED","messageId":"msg_3","error":null}
E_created ==
    JObj("time" :> JNum(3) @@ "state" :> JStr("CREATED")
           @@ "messageId" :> JStr("msg_3") @@ "error" :> JNull)

\* {"time":4,"state":7,"messageId":"msg_4"}
E_number ==
    JObj("time" :> JNum(4) @@ "state" :> JNum(7)
           @@ "messageId" :> JStr("msg_4"))

\* the event objects a response of the model is made of
EventElem(k) ==
    CASE k = 1 -> E_delivered
      [] k = 2 -> E_pending
      [] k = 3 -> E_created
      [] k = 4 -> E_number

EventElemIds == 1..4

\* {"cursor":"c1","events":[...]} with the events picks names
EventsBody(picks) ==
    JObj("cursor" :> JStr("c1")
           @@ "events" :> JArr([i \in 1..Len(picks) |-> EventElem(picks[i])]))

EventPicks == UNION {[1..n -> EventElemIds] : n \in 0..MaxEvents}

\* {"messageId":"msg_1","url":"https://example.com","createdAt":5}
M_message ==
    JObj("messageId" :> JStr("msg_1") @@ "url" :> JStr("https://example.com")
           @@ "createdAt" :> JNum(5))

\* {"messageId":"msg_1","url":"https://example.com","method":"POST",
\*  "createdAt":5,"dlqId":"dlq_1","header":{"a":["b"]}}
M_dead ==
    JObj("messageId" :> JStr("msg_1") @@ "url" :> JStr("https://example.com")
           @@ "method" :> JStr("POST") @@ "createdAt" :> JNum(5)
           @@ "dlqId" :> JStr("dlq_1")
           @@ "header" :> JObj("a" :> JArr(<<JStr("b")>>)))

\* the response bodies of the model that are no list of the events above
ReadBody(i) ==
    CASE i = 1 -> JMalformed
      [] i = 2 -> JNull
      [] i = 3 -> M_message
      [] i = 4 -> JObj("messages" :> JArr(<<M_dead>>))
      [] i = 5 -> JObj("messages" :> JArr(<<M_dead, M_message>>))
      [] i = 6 -> JObj("events" :> JArr(<<E_delivered>>))
      [] i = 7 -> JObj("events" :> JArr(<<JObj("time" :> JNum(1)
                                               @@ "messageId" :> JStr("msg_1"))>>))
      [] i = 8 -> JObj("events" :> JArr(<<JObj("state" :> JStr("ACTIVE")
                                               @@ "messageId" :> JStr("msg_1"))>>))
      [] i = 9 -> JObj("events" :> JArr(<<JObj("time" :> JNum(1)
                                               @@ "state" :> JObj("RETRY" :> JNull)
                                               @@ "messageId" :> JStr("msg_1"))>>))
      [] i = 10 -> JObj("error" :> JStr("not found"))

ReadBodyIds == 1..10

ReadNext ==
    \/ \E message_id \in MessageIds : GetMessage(message_id)
    \/ \E message_id \in MessageIds : CancelMessage(message_id)
    \/ \E request \in CursorRequests : GetEvents(request)
    \/ \E request \in CursorRequests : GetDeadLetterQueue(request)
    \/ \E status \in ReadStatusCodes, i \in ReadBodyIds :
          TransportResponds(Response(status, ReadBody(i)))
    \/ \E status \in ReadStatusCodes, picks \in EventPicks :
          TransportResponds(Response(status, EventsBody(picks)))
    \/ TransportFails
    \/ GetMessageResume
    \/ CancelMessageResume
    \/ GetEventsResume
    \/ GetDeadLetterQueueResume
    \/ Return

SpecRead == Init /\ [][ReadNext]_vars

----------------------------------------------------------------------------
(* Properties of the encoder *)

Encoded == enc_out.ok

\* the caller's values under a name, <<>> when the caller gave none
CallerValues(name) ==
    IF enc_in.headers.some /\ name \in DOMAIN enc_in.headers.v
    THEN enc_in.headers.v[name]
    ELSE <<>>

SeqRange(s) == {s[i] : i \in 1..Len(s)}

\* the header holds one value, the decimal digits of n (no sign, no leading
\* zero) followed by the bytes of suffix
IsDecimalOf(values, n, suffix) ==
    /\ Len(values) = 1
    /\ LET text == values[1]
           k == Len(text) - Len(suffix)
       IN  /\ k >= 1
           /\ SubSeq(text, k + 1, Len(text)) = suffix
           /\ (k > 1 => text[1] # 48)
           /\ ParseDecimal(SubSeq(text, 1, k)) = n

\* C1 (as claimed): whenever delay and not_before are both set, the encoded
\* header set contains Upstash-Not-Before and does not contain Upstash-Delay.
C1_NotBeforeWithoutDelay ==
    (Encoded /\ enc_in.delay.some /\ enc_in.not_before.some)
        => /\ "upstash-not-before" \in DOMAIN enc_out.headers
           /\ "upstash-delay" \notin DOMAIN enc_out.headers

\* C2 (as claimed): with not_before set and delay absent, whatever the
\* pass-through headers are, the encoded header set contains
\* Upstash-Not-Before with the decimal timestamp and no Upstash-Delay header.
C2_NoDelayHeaderAtAll ==
    (Encoded /\ enc_in.not_before.some /\ ~enc_in.delay.some)
        => /\ "upstash-not-before" \in DOMAIN enc_out.headers
           /\ IsDecimalOf(enc_out.headers["upstash-not-before"],
                          enc_in.not_before.v, <<>>)
           /\ "upstash-delay" \notin DOMAIN enc_out.headers

\* C2 (amended): with not_before set and delay absent, the encoded header set
\* contains Upstash-Not-Before with the decimal timestamp, and it contains an
\* Upstash-Delay header only when the caller's pass-through headers carry
\* one, which is then kept with the caller's values: the encoder adds none.
C2_NoDelayHeaderAdded ==
    (Encoded /\ enc_in.not_before.some /\ ~enc_in.delay.some)
        => /\ "upstash-not-before" \in DOMAIN enc_out.headers
           /\ IsDecimalOf(enc_out.headers["upstash-not-before"],
                          enc_in.not_before.v, <<>>)
           /\ IF CallerValues("upstash-delay") = <<>>
              THEN "upstash-delay" \notin DOMAIN enc_out.headers
              ELSE /\ "upstash-delay" \in DOMAIN enc_out.headers
                   /\ enc_out.headers["upstash-delay"]
                        = CallerValues("upstash-delay")

C2_Witness ==
    /\ Encoded /\ enc_in.not_before.some /\ ~enc_in.delay.some
    /\ enc_in.retries.some /\ enc_in.callback.some
    /\ Len(CallerValues("upstash-delay")) = 2
    /\ enc_out.headers["upstash-not-before"]
         = <<(<<49, 55, 48, 48, 48, 48, 48, 48, 48, 48>>)>>

\* C8: every encoded header set holds Upstash-Method exactly once, with the
\* token of the method option when it is set and POST when it is absent,
\* also when the caller's pass-through headers carry Upstash-Method.
C8_MethodHeaderOnce ==
    Encoded
        => /\ "upstash-method" \in DOMAIN enc_out.headers
           /\ Len(enc_out.headers["upstash-method"]) = 1
           /\ (~enc_in.method.some
                 => enc_out.headers["upstash-method"][1] = <<80, 79, 83, 84>>)
           /\ (enc_in.method = Some("GET")
                 => enc_out.headers["upstash-method"][1] = <<71, 69, 84>>)

C8_Witness ==
    /\ Encoded /\ ~enc_in.method.some
    /\ Len(CallerValues("upstash-method")) = 2
    /\ enc_out.headers["upstash-method"] = <<B_POST>>

\* C9: every option that is set is encoded with its specified value: delay n
\* as "<n>s", retries n and not_before n as "<n>" in decimal,
\* content_based_deduplication as "true" or "false", deduplication_id and
\* callback as the caller's string unchanged; retries 5 gives "5" and delay
\* 30 gives "30s".
C9_DirectiveValues ==
    Encoded
        => /\ (enc_in.delay.some
                 => /\ "upstash-delay" \in DOMAIN enc_out.headers
                    /\ IsDecimalOf(enc_out.headers["upstash-delay"],
                                   enc_in.delay.v, <<115>>))
           /\ (enc_in.delay = Some(30)
                 => enc_out.headers["upstash-delay"] = <<(<<51, 48, 115>>)>>)
           /\ (enc_in.retries.some
                 => /\ "upstash-retries" \in DOMAIN enc_out.headers
                    /\ IsDecimalOf(enc_out.headers["upstash-retries"],
                                   enc_in.retries.v, <<>>))
           /\ (enc_in.retries = Some(5)
                 => enc_out.headers["upstash-retries"] = <<(<<53>>)>>)
           /\ (enc_in.not_before.some
                 => /\ "upstash-not-before" \in DOMAIN enc_out.headers
                    /\ IsDecimalOf(enc_out.headers["upstash-not-before"],
                                   enc_in.not_before.v, <<>>))
           /\ (enc_in.content_based_deduplication.some
                 => /\ "upstash-content-based-deduplication"
                          \in DOMAIN enc_out.headers
                    /\ enc_out.headers["upstash-content-based-deduplication"]
                         = <<(IF enc_in.content_based_deduplication.v
                              THEN <<116, 114, 117, 101>>
                              ELSE <<102, 97, 108, 115, 101>>)>>)
           /\ (enc_in.deduplication_id.some
                 => /\ "upstash-deduplication-id" \in DOMAIN enc_out.headers
                    /\ enc_out.headers["upstash-deduplication-id"]
                         = <<enc_in.deduplication_id.v>>)
           /\ (enc_in.callback.some
                 => /\ "upstash-callback" \in DOMAIN enc_out.headers
                    /\ enc_out.headers["upstash-callback"]
                         = <<enc_in.callback.v>>)

C9_Witness ==
    /\ Encoded
    /\ enc_in.delay = Some(30) /\ enc_in.retries = Some(5)
    /\ enc_in.not_before.some /\ enc_in.deduplication_id.some
    /\ enc_in.callback.some /\ enc_in.content_based_deduplication = Some(FALSE)
    /\ enc_out.headers["upstash-delay"] = <<(<<51, 48, 115>>)>>

\* the directive names the encoder writes for the options of enc_in
EmittedNames ==
    {"upstash-method"}
      \cup (IF enc_in.delay.some THEN {"upstash-delay"} ELSE {})
      \cup (IF enc_in.not_before.some THEN {"upstash-not-before"} ELSE {})
      \cup (IF enc_in.deduplication_id.some
            THEN {"upstash-deduplication-id"} ELSE {})
      \cup (IF enc_in.content_based_deduplication.some
            THEN {"upstash-content-based-deduplication"} ELSE {})
      \cup (IF enc_in.retries.some THEN {"upstash-retries"} ELSE {})
      \cup (IF enc_in.callback.some THEN {"upstash-callback"} ELSE {})

\* C10: when a pass-through header has the name of a directive the encoder
\* emits, the encoded header set holds one value under that name and it is
\* not one of the caller's values: the directive overwrites the caller's
\* header.  (No caller value of the model equals a directive value.)
C10_DirectiveOverwritesCaller ==
    Encoded
        => \A name \in EmittedNames :
              CallerValues(name) # <<>>
                 => /\ name \in DOMAIN enc_out.headers
                    /\ Len(enc_out.headers[name]) = 1
                    /\ enc_out.headers[name][1]
                         \notin SeqRange(CallerValues(name))

C10_Witness ==
    /\ Encoded /\ enc_in.delay = Some(30)
    /\ Len(CallerValues("upstash-delay")) = 2
    /\ enc_out.headers["upstash-delay"] = <<(<<51, 48, 115>>)>>

----------------------------------------------------------------------------
(* Properties of publish and publish_json *)

Returned == pc = "done"

Answered == pc = "done" /\ reply.kind = "response"

\* the JSON value an outcome element holds for a field: the member of that
\* name in an object (null when it is absent), the element at the field's
\* position in an array
WireValue(elem, pos, name) ==
    IF elem.t = "obj"
    THEN (IF name \in DOMAIN elem.v THEN elem.v[name] ELSE JNull)
    ELSE elem.v[pos]

\* the optional field opt is what the JSON value j says
OptionIs(opt, j) ==
    IF j.t = "null" THEN ~opt.some ELSE opt.some /\ opt.v = j.v

\* the outcome record says what the element of the response says
OutcomeIs(outcome, elem) ==
    /\ OptionIs(outcome.message_id, WireValue(elem, 1, "messageId"))
    /\ OptionIs(outcome.url, WireValue(elem, 2, "url"))
    /\ OptionIs(outcome.error, WireValue(elem, 3, "error"))
    /\ OptionIs(outcome.deduplicated, WireValue(elem, 4, "deduplicated"))

\* a JSON object whose outcome members, where present, are null or of the
\* type of the field
IsOutcomeObject(elem) ==
    /\ elem.t = "obj"
    /\ \A name \in {"messageId", "url", "error"} :
          name \in DOMAIN elem.v => elem.v[name].t \in {"null", "str"}
    /\ "deduplicated" \in DOMAIN elem.v
          => elem.v["deduplicated"].t \in {"null", "bool"}

\* a JSON array of four values, each null or of the type of the field at
\* its position
IsOutcomeTuple(elem) ==
    /\ elem.t = "arr"
    /\ Len(elem.v) = 4
    /\ \A pos \in 1..3 : elem.v[pos].t \in {"null", "str"}
    /\ elem.v[4].t \in {"null", "bool"}

\* the body has the shape the destination expects: one outcome object for a
\* Url, an array of outcome objects for a Topic
HasExpectedShape(url, body) ==
    IF url.kind = "Url" THEN IsOutcomeObject(body)
    ELSE /\ body.t = "arr"
         /\ \A i \in 1..Len(body.v) : IsOutcomeObject(body.v[i])

\* the body is one the decoder of the destination reads
IsReadable(url, body) ==
    IF url.kind = "Url" THEN IsOutcomeObject(body) \/ IsOutcomeTuple(body)
    ELSE /\ body.t = "arr"
         /\ \A i \in 1..Len(body.v) :
               IsOutcomeObject(body.v[i]) \/ IsOutcomeTuple(body.v[i])

\* the outcome elements of a body of the expected shape
ElementsOf(url, body) == IF url.kind = "Url" THEN <<body>> ELSE body.v

\* C3: for a Url destination every successful publish and publish_json
\* returns exactly one outcome, whatever the response body looks like.
C3_DirectUrlOneOutcome ==
    (Returned /\ call.url.kind = "Url" /\ result.ok) => Len(result.v) = 1

C3_Witness ==
    /\ Returned /\ call.op = "publish_json" /\ call.url.kind = "Url"
    /\ result.ok /\ Len(result.v) = 1
    /\ reply.body.t = "arr"

\* C4: for a Topic destination a successful publish returns the outcomes of
\* the response array, as many and in the same order: the i-th outcome
\* returned is the i-th element of the array; the empty array gives the
\* empty result.
C4_TopicOrderPreserved ==
    (Returned /\ call.url.kind = "Topic" /\ result.ok)
        => /\ reply.kind = "response"
           /\ reply.body.t = "arr"
           /\ Len(result.v) = Len(reply.body.v)
           /\ \A i \in 1..Len(result.v) :
                 OutcomeIs(result.v[i], reply.body.v[i])

C4_Witness ==
    /\ Answered /\ call.op = "publish" /\ call.url.kind = "Topic"
    /\ reply.body.t = "arr" /\ Len(reply.body.v) = 3
    /\ result =
         Ok(<< [deduplicated |-> Some(TRUE), error |-> None,
                message_id |-> Some("b"), url |-> None],
               [deduplicated |-> None, error |-> Some("invalid token"),
                message_id |-> None, url |-> None],
               [deduplicated |-> None, error |-> None,
                message_id |-> Some("abc"),
                url |-> Some("https://example.com")] >>)

\* the body {"error":"invalid token"}
IsInvalidTokenBody(body) ==
    /\ body.t = "obj"
    /\ DOMAIN body.v = {"error"}
    /\ body.v["error"].t = "str"
    /\ body.v["error"].v = "invalid token"

\* C5: when the transport returns a response, publish fails or succeeds by
\* the body alone, whatever the status: it succeeds exactly when the decoder
\* of the destination reads the body, and {"error":"invalid token"} for a Url
\* destination gives a success of one outcome with error populated and
\* messageId absent.
C5_StatusIsNotAFailure ==
    Answered
        => /\ result.ok <=> IsReadable(call.url, reply.body)
           /\ (call.url.kind = "Url" /\ IsInvalidTokenBody(reply.body))
                 => result = Ok(<< [deduplicated |-> None,
                                    error |-> Some("invalid token"),
                                    message_id |-> None, url |-> None] >>)

C5_Witness ==
    /\ Answered /\ call.op = "publish" /\ call.url.kind = "Url"
    /\ reply.status = 401
    /\ IsInvalidTokenBody(reply.body)
    /\ result.ok /\ Len(result.v) = 1
    /\ result.v[1].error = Some("invalid token")
    /\ ~result.v[1].message_id.some

\* C6: a response of the expected shape is returned as a success, also when
\* outcomes carry an error: the result has one outcome per element, in
\* order, and an outcome has the error of its element.
C6_OutcomeErrorsAreData ==
    (Answered /\ HasExpectedShape(call.url, reply.body))
        => /\ result.ok
           /\ LET elems == ElementsOf(call.url, reply.body)
              IN  /\ Len(result.v) = Len(elems)
                  /\ \A i \in 1..Len(elems) :
                        OptionIs(result.v[i].error,
                                 WireValue(elems[i], 3, "error"))

C6_Witness ==
    /\ Answered /\ call.url.kind = "Topic"
    /\ HasExpectedShape(call.url, reply.body)
    /\ result.ok /\ Len(result.v) = 3
    /\ ~result.v[1].error.some
    /\ result.v[2].error = Some("invalid token")
    /\ ~result.v[3].error.some

\* C7 (as claimed): when the body is not of the shape the destination
\* expects (malformed JSON, an array for a Url destination, an object for a
\* Topic destination), publish returns a failure.
C7_UnexpectedShapeFails ==
    (Answered /\ (\/ reply.body.t = "malformed"
                  \/ call.url.kind = "Url" /\ reply.body.t = "arr"
                  \/ call.url.kind = "Topic" /\ reply.body.t = "obj"))
        => ~result.ok

----------------------------------------------------------------------------
(* Properties of the request publish and publish_json send *)

\* the delivery options of the current invocation: publish always has
\* them (the fields of its request), publish_json has them or not
CallOptions ==
    IF call.op = "publish" THEN Some(OptionsOfRequest(call.request))
    ELSE call.options

\* the current invocation has handed a request to the transport
Sent == call.op \in {"publish", "publish_json"} /\ Len(outbound) >= 1

\* C11: every request publish or publish_json hands to the transport has the
\* verb POST, whatever the method option is; a method option that is set is
\* the one value of the Upstash-Method header of the request.
C11_VerbIsAlwaysPost ==
    Sent =>
        \A i \in 1..Len(outbound) :
            /\ outbound[i].verb = "POST"
            /\ (CallOptions.some /\ CallOptions.v.method.some)
                  => /\ "upstash-method" \in DOMAIN outbound[i].headers
                     /\ outbound[i].headers["upstash-method"]
                           = <<MethodAsStr(CallOptions.v.method.v)>>

C11_Witness ==
    /\ Sent /\ call.op = "publish_json"
    /\ CallOptions.some /\ CallOptions.v.method.some
    /\ CallOptions.v.method.v = "GET"
    /\ outbound[1].verb = "POST"
    /\ outbound[1].headers["upstash-method"] = <<B_GET>>

\* C12: the request publish sends carries no body when the request has none,
\* and the body of the request, as it was given, when it has one.
C12_BodyUnchanged ==
    (Sent /\ call.op = "publish") =>
        \A i \in 1..Len(outbound) :
            IF call.request.body.some
            THEN outbound[i].body.some
                 /\ outbound[i].body.v = call.request.body.v
            ELSE ~outbound[i].body.some

C12_Witness ==
    /\ Sent /\ call.op = "publish" /\ pc = "done"
    /\ call.request.body.some /\ call.request.body.v = "hello"
    /\ outbound[1].body.some /\ outbound[1].body.v = "hello"

----------------------------------------------------------------------------
(* Properties of the failures *)

\* the encoder ran and returned an error
EncodeFailed == ~enc_out.ok /\ enc_out.err # "NotRun"

\* the option is set to a text that is no valid header value
IsMalformed(option) == option.some /\ ~HeaderValueFromStr(option.v).ok

\* C13 (as claimed): the error of the encoder tells which field was
\* malformed: when only the deduplication_id is malformed, the error differs
\* from the one the same options give with a valid deduplication_id and a
\* malformed callback.
C13_EncodingErrorNamesField ==
    (EncodeFailed /\ IsMalformed(enc_in.deduplication_id)
        /\ ~IsMalformed(enc_in.callback))
        => enc_out # generate_headers([enc_in EXCEPT
                                          !.callback = Some(B_c_DEL),
                                          !.deduplication_id = Some(B_abc)])

\* the current invocation returned an error
CallFailed == pc = "done" /\ ~result.ok

\* the stage at which the current invocation failed: the path, the headers,
\* the send (a body that does not serialize fails there), the decoding
FailedStage ==
    IF Len(outbound) = 0
    THEN (IF ~UrlJoin(client.base_url,
                      PublishPath(client.version, RequestUrl(call.url))).ok
          THEN "path"
          ELSE IF CallOptions.some /\ ~generate_headers(CallOptions.v).ok
          THEN "encode"
          ELSE "send")
    ELSE IF reply.kind = "failure" THEN "send" ELSE "decode"

\* the error of an invocation whose send fails
SendFailure == PublishReceive(call.url, [kind |-> "failure"])

\* the error of an invocation whose response is no JSON
DecodeFailure == PublishReceive(call.url, Response(200, JMalformed))

\* C14 (as claimed): the kind of a failure tells the stage that failed:
\* failures of different stages have different kinds, so a failure of the
\* path or of the header encoding has neither the kind of a failed send nor
\* the kind of a failed decoding, and those two differ.
C14_FailureKindNamesStage ==
    CallFailed =>
        /\ FailedStage # "send" => result.err # SendFailure.err
        /\ FailedStage # "decode" => result.err # DecodeFailure.err

----------------------------------------------------------------------------
(* Properties of publish_json *)

\* the directive headers of a header map
DirectiveHeaders(h) ==
    [n \in DOMAIN h \cap {HeaderNameOf(s) : s \in DirectiveSpellings} |-> h[n]]

\* C15 (as claimed): the request publish_json sends has the directive
\* headers of the request publish sends for the same destination and the
\* same options, where no options at all are options with nothing set.
C15_JsonHeadersAsPublish ==
    (Sent /\ call.op = "publish_json") =>
        LET o == IF call.options.some THEN call.options.v ELSE NoOptions
            p == PublishSend(RequestWith(call.url, o))
        IN  /\ p.ok
            /\ DirectiveHeaders(outbound[1].headers)
                  = DirectiveHeaders(p.v.headers)

\* C16 (as claimed): every request publish_json sends has the one
\* Content-Type value application/json and the JSON text of the body, also
\* when the pass-through headers of the options have a Content-Type.
C16_JsonContentType ==
    (Sent /\ call.op = "publish_json") =>
        /\ "content-type" \in DOMAIN outbound[1].headers
        /\ outbound[1].headers["content-type"] = <<B_application_json>>
        /\ outbound[1].body.some
        /\ outbound[1].body.v = SerializeJson(call.body).v

----------------------------------------------------------------------------
(* Properties of the number of requests *)

\* an invocation is past the point where it hands its request to the
\* transport
PastSend == pc \in {"awaiting", "received", "done"}

\* the path and the headers of the current invocation were built
PathAndHeadersOk ==
    /\ UrlJoin(client.base_url,
               PublishPath(client.version, RequestUrl(call.url))).ok
    /\ CallOptions.some => generate_headers(CallOptions.v).ok

\* the body of the current invocation can be sent: publish sends what it is
\* given, publish_json what serializes to JSON
BodyOk == call.op = "publish_json" => SerializeJson(call.body).ok

\* C17 (as claimed): an invocation hands at most one request to the
\* transport, also after a failed send or a failed decoding and whatever the
\* retries option is, and exactly one when the path and the headers were
\* built.
C17_OneRequestPerCall ==
    /\ Len(outbound) <= 1
    /\ (PastSend /\ PathAndHeadersOk) => Len(outbound) = 1

\* C17 (amended): an invocation hands at most one request to the transport,
\* also after a failed send or a failed decoding and whatever the retries
\* option is, and exactly one when the path and the headers were built and
\* the body of publish_json serializes.
C17_OneRequestWhenSendable ==
    /\ Len(outbound) <= 1
    /\ (PastSend /\ PathAndHeadersOk /\ BodyOk) => Len(outbound) = 1
    /\ (PastSend /\ ~(PathAndHeadersOk /\ BodyOk)) => Len(outbound) = 0

C17_Witness ==
    /\ pc = "done" /\ call.op = "publish"
    /\ call.request.retries.some /\ call.request.retries.v = 5
    /\ reply.kind = "failure"
    /\ ~result.ok
    /\ Len(outbound) = 1

----------------------------------------------------------------------------
(* Properties of concurrent invocations *)

\* what the first step of an invocation gives for these arguments
SentFor(this) ==
    IF this.op = "publish" THEN PublishSend(this.request)
    ELSE PublishJsonSend(this.url, this.body, this.options)

\* C18: in every state of every interleaving of the invocations on one
\* client, the client is the one Client::new returned, and for each
\* invocation the request handed to the transport is the one its own
\* arguments give, and its result is the one its own arguments and its own
\* response give.
C18_CallsAreIndependent ==
    /\ client = New(new_in).v
    /\ \A t \in DOMAIN tasks :
          LET k == tasks[t]
          IN  k.pc # "idle" =>
                LET sent == SentFor(k.call)
                IN  /\ k.outbound = (IF sent.ok THEN <<sent.v>> ELSE <<>>)
                    /\ ~sent.ok => (k.pc = "done" /\ k.result = sent)
                    /\ (sent.ok /\ k.pc = "done")
                          => k.result = PublishReceive(k.call.url, k.reply)

C18_Witness ==
    /\ DOMAIN tasks = Tasks
    /\ tasks[1].pc = "done" /\ tasks[1].call.op = "publish"
    /\ tasks[1].reply.kind = "response" /\ tasks[1].result.ok
    /\ tasks[2].pc = "done" /\ tasks[2].call.op = "publish_json"
    /\ tasks[2].reply.kind = "failure" /\ ~tasks[2].result.ok

----------------------------------------------------------------------------
(* Properties of the request URL *)

\* a piece of a destination as it stands inside a path: the delimiters "?"
\* and "#" percent-encoded, any other piece as it is
EscapedPiece(piece) ==
    CASE piece = "?" -> "%3F"
      [] piece = "#" -> "%23"
      [] OTHER -> piece

\* the target of a destination: the topic name as it is, the URL escaped
TargetOf(url) ==
    IF url.kind = "Topic" THEN url.v
    ELSE [i \in 1..Len(url.v) |-> EscapedPiece(url.v[i])]

\* C19 (as claimed): the URL of the request is the origin of the base URL
\* with the path /<version>/publish/<target>, the target being the topic
\* name or the escaped destination URL: the whole destination is in the
\* path, the request URL has no query and no fragment.
C19_DestinationInsidePath ==
    Sent =>
        /\ outbound[1].url.origin = client.base_url.origin
        /\ outbound[1].url.path
              = <<"/", client.version, "/publish/">> \o TargetOf(call.url)
        /\ ~outbound[1].url.query.some
        /\ ~outbound[1].url.fragment.some

----------------------------------------------------------------------------
(* Properties of the constructed client *)

\* a constructor ran and returned a client
Constructed == new_out.ok

\* C20 (as claimed): a client made with no base URL has the base
\* https://qstash.upstash.io, and a client made with a base URL has that base;
\* a client with a version segment has v2 when no version was given and the
\* segment of the given version otherwise (V1 is v1, V2 is v2).
C20_DefaultBaseAndVersion ==
    Constructed =>
        /\ ~new_in.base_url.some
              => new_out.v.base_url.origin = "https://qstash.upstash.io"
        /\ new_in.base_url.some
              => new_out.v.base_url = UrlParse(new_in.base_url.v).v
        /\ "version" \in DOMAIN new_out.v
              => new_out.v.version
                    = (CASE ~new_in.version.some -> "v2"
                         [] new_in.version.v = "V1" -> "v1"
                         [] new_in.version.v = "V2" -> "v2")

----------------------------------------------------------------------------
(* Properties of the Authorization header and of the outcomes *)

\* C21 (as claimed): every request the client hands to the transport has the
\* one Authorization value "Bearer <token>", with the token given to
\* Client::new, also when the pass-through headers have an Authorization.
C21_BearerOnEveryRequest ==
    \A i \in 1..Len(outbound) :
        /\ "authorization" \in DOMAIN outbound[i].headers
        /\ outbound[i].headers["authorization"] = <<BearerOf(new_in.token)>>

\* C22 (as claimed): no outcome publish returns has both a message_id and an
\* error.
C22_MessageIdXorError ==
    (Returned /\ result.ok) =>
        \A i \in 1..Len(result.v) :
            ~(result.v[i].message_id.some /\ result.v[i].error.some)

----------------------------------------------------------------------------
(* Properties of the constructor's failures *)

Ran == new_out.ok \/ new_out.err # "NotRun"

\* "Bearer <token>" is a header value when every byte of the token is a tab
\* or a visible ASCII character
TokenIsValid == \A i \in 1..Len(new_in.token) :
                    new_in.token[i] = 9 \/ new_in.token[i] \in 32..126

\* the base URL, when given, does not parse: it has no scheme
BaseUrlIsInvalid ==
    new_in.base_url.some /\ new_in.base_url.v = "qstash.upstash.io"

\* C23 (as claimed): Client::new returns TokenError when "Bearer <token>" is
\* not a header value, InvalidUrl when the base URL does not parse and the
\* token is valid, and a client only when both checks pass.
C23_TokenErrorThenInvalidUrl ==
    Ran =>
        /\ ~TokenIsValid => ~new_out.ok /\ new_out.err = "TokenError"
        /\ (TokenIsValid /\ BaseUrlIsInvalid)
              => ~new_out.ok /\ new_out.err = "InvalidUrl"
        /\ new_out.ok => TokenIsValid /\ ~BaseUrlIsInvalid

\* C23 (amended): Client::new returns TokenError exactly when "Bearer <token>"
\* is not a header value, whatever the base URL is; with a valid token it
\* returns ReqwestError when the HTTP client cannot be built, and otherwise
\* InvalidUrl when the base URL does not parse; it returns a client only when
\* the token and the base URL are both valid.
C23_TokenErrorFirst ==
    Ran =>
        /\ ~TokenIsValid <=> (~new_out.ok /\ new_out.err = "TokenError")
        /\ (TokenIsValid /\ BaseUrlIsInvalid)
              => ~new_out.ok /\ new_out.err \in {"ReqwestError", "InvalidUrl"}
        /\ (~new_out.ok /\ new_out.err = "InvalidUrl")
              => TokenIsValid /\ BaseUrlIsInvalid
        /\ new_out.ok => TokenIsValid /\ ~BaseUrlIsInvalid
        /\ (TokenIsValid /\ ~BaseUrlIsInvalid)
              => new_out.ok \/ new_out.err = "ReqwestError"

\* the constructor was given an invalid token and an invalid base URL
C23_Witness ==
    /\ Ran /\ ~TokenIsValid /\ BaseUrlIsInvalid
    /\ ~new_out.ok /\ new_out.err = "TokenError"

----------------------------------------------------------------------------
(* Properties of the failures before the send *)

\* publish or publish_json was invoked
Invoked == call.op \in {"publish", "publish_json"}

\* no path can be joined to the base URL of the client
PathFails == client.base_url.cannot_be_a_base

\* an option of the invocation is set to a text that is no header value
HeadersFail ==
    /\ CallOptions.some
    /\ \/ IsMalformed(CallOptions.v.deduplication_id)
       \/ IsMalformed(CallOptions.v.callback)

\* the directive names of the options that are set in o
NamesOfSet(o) ==
    {"upstash-method"}
      \cup (IF o.delay.some THEN {"upstash-delay"} ELSE {})
      \cup (IF o.not_before.some THEN {"upstash-not-before"} ELSE {})
      \cup (IF o.deduplication_id.some
            THEN {"upstash-deduplication-id"} ELSE {})
      \cup (IF o.content_based_deduplication.some
            THEN {"upstash-content-based-deduplication"} ELSE {})
      \cup (IF o.retries.some THEN {"upstash-retries"} ELSE {})
      \cup (IF o.callback.some THEN {"upstash-callback"} ELSE {})

\* C24: when the path cannot be built or an option cannot be encoded as a
\* header, publish and publish_json return an error and no request is handed
\* to the transport; every request that is handed to the transport carries
\* the header of every option that is set, each with one valid value.
C24_NoRequestWhenEncodingFails ==
    Invoked =>
        /\ (PathFails \/ HeadersFail)
              => /\ Len(outbound) = 0
                 /\ pc = "done" /\ ~result.ok
        /\ (Sent /\ CallOptions.some)
              => \A n \in NamesOfSet(CallOptions.v) :
                    /\ n \in DOMAIN outbound[1].headers
                    /\ Len(outbound[1].headers[n]) = 1
                    /\ HeaderValueFromStr(outbound[1].headers[n][1]).ok

\* an invocation with an option that is encoded and a later one that is
\* malformed has returned its error
C24_Witness ==
    /\ Invoked /\ HeadersFail /\ ~PathFails
    /\ CallOptions.v.delay.some
    /\ pc = "done" /\ ~result.ok /\ Len(outbound) = 0

----------------------------------------------------------------------------
(* Properties of the encoded header set as a whole *)

\* the names of the caller's pass-through headers
CallerNames ==
    IF enc_in.headers.some THEN DOMAIN enc_in.headers.v ELSE {}

\* C28: the names of the encoded header set are the names of the pass-through
\* headers, Upstash-Method and the directive names of the options that are
\* set, and no other; a pass-through header whose name is no emitted directive
\* name keeps all its values in their order; an emitted directive has one
\* value.
C28_ExactHeaderSet ==
    Encoded =>
        /\ DOMAIN enc_out.headers = CallerNames \cup EmittedNames
        /\ \A n \in CallerNames \ EmittedNames :
              enc_out.headers[n] = enc_in.headers.v[n]
        /\ \A n \in EmittedNames : Len(enc_out.headers[n]) = 1

\* a pass-through header with two values was kept next to the directives of
\* the options that are set, with options that are absent
C28_Witness ==
    /\ Encoded
    /\ Len(CallerValues("content-type")) = 2
    /\ enc_out.headers["content-type"] = CallerValues("content-type")
    /\ enc_in.callback.some /\ ~enc_in.retries.some /\ ~enc_in.delay.some
    /\ "upstash-retries" \notin DOMAIN enc_out.headers

----------------------------------------------------------------------------
(* Properties of the read-side operations *)

\* cancel_message was invoked and has gone past its send
Cancelling == call.op = "cancel_message" /\ pc # "idle"

\* the transport answered with a status in 200..299
AnsweredSuccess ==
    reply.kind = "response" /\ reply.status >= 200 /\ reply.status <= 299

\* what cancel_message returns: success exactly when a response with a 2xx
\* status arrived, DeleteMessageError otherwise
CancelOutcome ==
    pc = "done" =>
        /\ result.ok <=> AnsweredSuccess
        /\ ~result.ok => result.err = "DeleteMessageError"

\* the one request of cancel_message: a DELETE to /<version>/messages/<id>
\* on the base URL of the client
OneDelete ==
    /\ Len(outbound) = 1
    /\ outbound[1].verb = "DELETE"
    /\ outbound[1].url.origin = client.base_url.origin
    /\ outbound[1].url.path
          = <<"/", client.version, "/messages/">> \o call.message_id
    /\ ~outbound[1].url.query.some /\ ~outbound[1].url.fragment.some

\* C25 (as claimed): cancel_message sends one DELETE to
\* /<version>/messages/<id> and returns success exactly when a response with
\* a 2xx status arrives; any other response and a transport failure return
\* DeleteMessageError.
C25_OneDeleteSuccessIff2xx ==
    Cancelling => OneDelete /\ CancelOutcome

\* C25 (amended): cancel_message sends one DELETE to /<version>/messages/<id>
\* when that path can be joined to the base URL, and nothing otherwise; it
\* returns success exactly when a response with a 2xx status arrives; any
\* other response, a transport failure and a path that cannot be built
\* return DeleteMessageError.
C25_OneDeleteWhenPathBuilt ==
    Cancelling =>
        /\ IF PathFails
           THEN Len(outbound) = 0 /\ pc = "done"
           ELSE OneDelete
        /\ CancelOutcome

\* cancel_message sent its DELETE and returned DeleteMessageError on a
\* response with the status 300
C25_Witness ==
    /\ Cancelling /\ pc = "done" /\ OneDelete
    /\ reply.kind = "response" /\ reply.status = 300
    /\ ~result.ok /\ result.err = "DeleteMessageError"

\* the error kind of a read-side operation
OwnErrorKind(op) ==
    CASE op = "get_dead_letter_queue" -> "DeadLetterQueueError"
      [] op = "get_events" -> "EventError"
      [] op = "get_message" -> "GetMessageError"

\* C26 (as claimed): a read-side operation that fails, at the path, at the
\* send or at the decoding, returns its own error kind:
\* get_dead_letter_queue DeadLetterQueueError, get_events EventError,
\* get_message GetMessageError.
C26_OwnErrorKind ==
    (pc = "done" /\ ~result.ok
        /\ call.op \in {"get_dead_letter_queue", "get_events", "get_message"})
        => result.err = OwnErrorKind(call.op)

\* a JSON object that has what an Event needs besides a known state: a
\* numeric time, a messageId string, some state, and optional members that
\* are null or of their type
IsEventObject(e) ==
    /\ e.t = "obj"
    /\ "time" \in DOMAIN e.v /\ e.v["time"].t = "num"
    /\ "messageId" \in DOMAIN e.v /\ e.v["messageId"].t = "str"
    /\ "state" \in DOMAIN e.v
    /\ "nextDeliveryTime" \in DOMAIN e.v
          => e.v["nextDeliveryTime"].t \in {"null", "num"}
    /\ \A n \in {"error", "url", "topicName", "endpointName"} :
          n \in DOMAIN e.v => e.v[n].t \in {"null", "str"}

\* the state an event object names: its state when that is the name of a
\* known state, ERROR otherwise
StateNamed(e) ==
    IF e.v["state"].t = "str"
       /\ \E s \in {"CREATED", "ACTIVE", "DELIVERED", "ERROR", "CANCELED",
                    "RETRY", "FAILED"} : e.v["state"].v = s
    THEN e.v["state"].v
    ELSE "ERROR"

\* get_events returned after a response whose body is an object with a list
\* of event objects, the state of each a string or a number
EventsAnswered ==
    /\ call.op = "get_events" /\ pc = "done" /\ reply.kind = "response"
    /\ reply.body.t = "obj"
    /\ "events" \in DOMAIN reply.body.v
    /\ reply.body.v["events"].t = "arr"
    /\ "cursor" \in DOMAIN reply.body.v
          => reply.body.v["cursor"].t \in {"null", "str"}
    /\ \A i \in 1..Len(reply.body.v["events"].v) :
          /\ IsEventObject(reply.body.v["events"].v[i])
          /\ reply.body.v["events"].v[i].v["state"].t \in {"str", "num"}

----------------------------------------------------------------------------
(* Properties of termination *)

\* C29: when the transport answers each send with a response or a failure,
\* every invocation of publish and publish_json that waits for its send
\* returns to the caller, with a result or with an error.
C29_EveryCallReturns ==
    (Invoked /\ pc \in {"awaiting", "received"})
        ~> (pc = "done" /\ (result.ok \/ result.err # "NotRun"))

\* publish_json returned the error of a send the transport failed
C29_Witness ==
    /\ call.op = "publish_json" /\ pc = "done"
    /\ Len(outbound) = 1 /\ reply.kind = "failure"
    /\ ~result.ok /\ result.err = "PublishError"

====
